---- MODULE Spec2Model ----
(***************************************************************************)
(* Model of package paulstretch (paulstretch.go): the Paulstretch adapter  *)
(* that turns the fixed-window engine calls paulstretch_write and          *)
(* paulstretch_read into a byte stream with Write, Read and Close.         *)
(*                                                                         *)
(* Bytes of the input stream are named by their position in the stream     *)
(* (1, 2, 3, ...), bytes of the engine's output by their position in the   *)
(* concatenation of the windows the engine emits; 0 is the zero byte of a  *)
(* freshly made buffer.                                                    *)
(***************************************************************************)
EXTENDS Integers, Sequences, FiniteSets, TLC

\* ---------------------------------------------------------------- bounds
Cap == 2             \* len(p.writeBuf) = len(p.readBuf): one window, in bytes
MaxInput == 4        \* bytes of input the writer's caller has in total
MaxWrite == 4        \* longest data slice handed to one Write
MaxReadLen == 3      \* longest destination slice handed to one Read
MaxEmit == 1         \* most output windows the engine has ready after one submission

SampleWindow == 1    \* windowSize, in samples, where calls are made in samples
MaxSamples == 2      \* longest sample slice handed to WriteSamples or ReadSamples

\* ------------------------------------------------------ program constants
SampleSize == 4      \* bytes of one float32 sample

Writers == {"w1"}
Readers == {"r1"}
Closers == {"c1", "c2"}
Procs == Writers \cup Readers \cup Closers
NoProc == "none"

VARIABLES
  writeBuf, writeOff,        \* p.writeBuf, p.writeOff
  readBuf, readOff,          \* p.readBuf, p.readOff
  closed,                    \* p.closed
  mu,                        \* holder of p.rwCond.L, or NoProc
  permit, chClosed,          \* p.writePermit: tokens buffered, channel closed
  engPending,                \* engine: output windows paulstretch_read can still return
  engEmitted,                \* engine: output windows returned so far; the last one is in its output buffer
  submitted,                 \* engine: windows received by paulstretch_write, in order
  pc,                        \* position of each goroutine in its call
  data, n, c, buf,           \* Write: locals data, n, c, buf
  dlen,                      \* Read: len(data) of the destination
  callLen,                   \* Write: len(data) at the call
  ret,                       \* the result of the call that returned in the last step, if one did
  inPos,                     \* input bytes handed to Write so far
  delivered,                 \* bytes returned by Read so far, in order
  chCloseCount,              \* times close(p.writePermit) ran
  issued,                    \* permits sent into p.writePermit by Read
  consumed,                  \* permits received from p.writePermit by Write
  panicked                   \* a runtime panic happened (close of closed channel, send on closed channel)

vars == <<writeBuf, writeOff, readBuf, readOff, closed, mu, permit, chClosed,
          engPending, engEmitted, submitted, pc, data, n, c, buf, dlen,
          callLen, ret, inPos, delivered, chCloseCount, issued, consumed,
          panicked>>

adapterVars == <<writeBuf, writeOff, readBuf, readOff, closed, permit, chClosed>>
engineVars == <<engPending, engEmitted, submitted>>
writerVars == <<data, n, c, buf, callLen, inPos>>
closeVars == <<chCloseCount, panicked>>
permitVars == <<issued, consumed>>

\* ---------------------------------------------------------------- helpers
Min(a, b) == IF a < b THEN a ELSE b

Take(s, k) == SubSeq(s, 1, Min(k, Len(s)))

Drop(s, k) == SubSeq(s, k + 1, Len(s))

\* copy(dst[off:], src): copies min(len(dst)-off, len(src)) bytes
CopyInto(dst, off, src) ==
  [i \in 1..Len(dst) |->
     IF i > off /\ i - off <= Len(src) THEN src[i - off] ELSE dst[i]]

\* make([]byte, windowSize*4)
ZeroBuf(size) == [i \in 1..size |-> 0]

\* the bytes at..at+len-1 of the input stream
InputBytes(at, len) == [i \in 1..len |-> at + i - 1]

\* the e-th window the engine emits
EmittedWindow(e) == [i \in 1..Len(readBuf) |-> (e - 1) * Len(readBuf) + i]

NoRet == [who |-> NoProc, n |-> 0, err |-> "none"]

Returns(self, count, e) == [who |-> self, n |-> count, err |-> e]

NoBuf == [kind |-> "none", bytes |-> <<>>]

\* rwCond.Signal(): wakes one goroutine blocked in rwCond.Wait(), if any
Waiters == {r \in Readers : pc[r] = "r_wait"}

SignalTargets == IF Waiters = {} THEN {NoProc} ELSE Waiters

Signalled_NoWake(p, t) == p

Signalled(p, t) == IF t = NoProc THEN p ELSE [p EXCEPT ![t] = "r_woken"]

PermitAfterSend_NoSend(tokens) == tokens

\* select { case p.writePermit <- struct{}{}: default: } on a channel of capacity 1
PermitAfterSend(tokens) == IF tokens = 0 THEN 1 ELSE tokens

\* paulstretch_write: the engine takes one window; how many output windows it
\* then has ready is up to the engine
EngineReadyAfterWrite == 0..MaxEmit

\* ------------------------------------------------------------------- Init
\* NewPaulstretch with windowSize*4 = size
InitWith(size) ==
  /\ writeBuf = ZeroBuf(size)
  /\ writeOff = 0
  /\ readBuf = ZeroBuf(size)
  /\ readOff = size
  /\ closed = FALSE
  /\ mu = NoProc
  /\ permit = 1
  /\ chClosed = FALSE
  /\ engPending = 0
  /\ engEmitted = 0
  /\ submitted = <<>>
  /\ pc = [p \in Procs |-> "idle"]
  /\ data = [w \in Writers |-> <<>>]
  /\ n = [w \in Writers |-> 0]
  /\ c = [w \in Writers |-> 0]
  /\ buf = [w \in Writers |-> NoBuf]
  /\ dlen = [r \in Readers |-> 0]
  /\ callLen = [w \in Writers |-> 0]
  /\ ret = NoRet
  /\ inPos = 0
  /\ delivered = <<>>
  /\ chCloseCount = 0
  /\ issued = 0
  /\ consumed = 0
  /\ panicked = FALSE

Init == InitWith(Cap)

\* ------------------------------------------------------------------ Close
CloseCall(self) ==
  /\ pc[self] = "idle"
  /\ pc' = [pc EXCEPT ![self] = "c_lock"]
  /\ ret' = NoRet
  /\ UNCHANGED <<adapterVars, mu, engineVars, writerVars, dlen,
                 delivered, closeVars>>
  /\ UNCHANGED permitVars

CloseLock(self) ==
  /\ pc[self] = "c_lock"
  /\ mu = NoProc
  /\ mu' = self
  /\ pc' = [pc EXCEPT ![self] = "c_crit"]
  /\ ret' = NoRet
  /\ UNCHANGED <<adapterVars, engineVars, writerVars, dlen, delivered,
                 closeVars>>
  /\ UNCHANGED permitVars

CloseCrit_NoGuard(self) ==
  /\ pc[self] = "c_crit"
  /\ mu = self
  /\ closed' = TRUE
  /\ chClosed' = TRUE
  /\ chCloseCount' = chCloseCount + 1
  /\ panicked' = (panicked \/ chClosed)
  /\ \E t \in SignalTargets :
       pc' = [Signalled(pc, t) EXCEPT ![self] = "done"]
  /\ mu' = NoProc
  /\ ret' = Returns(self, 0, "nil")
  /\ UNCHANGED <<writeBuf, writeOff, readBuf, readOff, permit, engineVars,
                 writerVars, dlen, delivered>>
  /\ UNCHANGED permitVars

CloseCrit_ChannelLeftOpen(self) ==
  /\ pc[self] = "c_crit"
  /\ mu = self
  /\ IF ~closed
       THEN /\ closed' = TRUE
            /\ \E t \in SignalTargets :
                 pc' = [Signalled(pc, t) EXCEPT ![self] = "done"]
       ELSE /\ pc' = [pc EXCEPT ![self] = "done"]
            /\ UNCHANGED <<closed>>
  /\ mu' = NoProc
  /\ ret' = Returns(self, 0, "nil")
  /\ UNCHANGED <<writeBuf, writeOff, readBuf, readOff, permit, chClosed,
                 engineVars, writerVars, dlen, delivered, closeVars>>
  /\ UNCHANGED permitVars

CloseCrit_Flush(self) ==
  /\ pc[self] = "c_crit"
  /\ mu = self
  /\ IF ~closed
       THEN /\ closed' = TRUE
            /\ chClosed' = TRUE
            /\ chCloseCount' = chCloseCount + 1
            /\ panicked' = (panicked \/ chClosed)
            /\ submitted' = IF writeOff > 0
                              THEN Append(submitted, writeBuf)
                              ELSE submitted
            /\ \E t \in SignalTargets :
                 pc' = [Signalled(pc, t) EXCEPT ![self] = "done"]
       ELSE /\ pc' = [pc EXCEPT ![self] = "done"]
            /\ UNCHANGED <<closed, chClosed, chCloseCount, panicked, submitted>>
  /\ mu' = NoProc
  /\ ret' = Returns(self, 0, "nil")
  /\ UNCHANGED <<writeBuf, writeOff, readBuf, readOff, permit, engPending,
                 engEmitted, writerVars, dlen, delivered>>
  /\ UNCHANGED permitVars

CloseCrit(self) ==
  /\ pc[self] = "c_crit"
  /\ mu = self
  /\ IF ~closed
       THEN /\ closed' = TRUE
            /\ chClosed' = TRUE
            /\ chCloseCount' = chCloseCount + 1
            /\ panicked' = (panicked \/ chClosed)
            /\ \E t \in SignalTargets :
                 pc' = [Signalled(pc, t) EXCEPT ![self] = "done"]
       ELSE /\ pc' = [pc EXCEPT ![self] = "done"]
            /\ UNCHANGED <<closed, chClosed, chCloseCount, panicked>>
  /\ mu' = NoProc
  /\ ret' = Returns(self, 0, "nil")
  /\ UNCHANGED <<writeBuf, writeOff, readBuf, readOff, permit, engineVars,
                 writerVars, dlen, delivered>>
  /\ UNCHANGED permitVars

\* ------------------------------------------------------------------ Write
WriteCall(self) ==
  /\ pc[self] = "idle"
  /\ \E len \in 0..Min(MaxWrite, MaxInput - inPos) :
       /\ data' = [data EXCEPT ![self] = InputBytes(inPos + 1, len)]
       /\ callLen' = [callLen EXCEPT ![self] = len]
       /\ inPos' = inPos + len
  /\ pc' = [pc EXCEPT ![self] = "w_chk"]
  /\ ret' = NoRet
  /\ UNCHANGED <<adapterVars, mu, engineVars, n, c, buf, dlen,
                 delivered, closeVars>>
  /\ UNCHANGED permitVars

WriteChk_NoCheck(self) ==
  /\ pc[self] = "w_chk"
  /\ n' = [n EXCEPT ![self] = 0]
  /\ pc' = [pc EXCEPT ![self] = "w_loop"]
  /\ ret' = NoRet
  /\ UNCHANGED <<adapterVars, mu, engineVars, data, c, buf, callLen, inPos,
                 dlen, delivered, closeVars>>
  /\ UNCHANGED permitVars

WriteChk(self) ==
  /\ pc[self] = "w_chk"
  /\ IF closed
       THEN /\ ret' = Returns(self, 0, "EOF")
            /\ pc' = [pc EXCEPT ![self] = "idle"]
            /\ data' = [data EXCEPT ![self] = <<>>]
            /\ UNCHANGED n
       ELSE /\ n' = [n EXCEPT ![self] = 0]
            /\ pc' = [pc EXCEPT ![self] = "w_loop"]
            /\ ret' = NoRet
            /\ UNCHANGED <<data>>
  /\ UNCHANGED <<adapterVars, mu, engineVars, c, buf, callLen, inPos, dlen,
                 delivered, closeVars>>
  /\ UNCHANGED permitVars

ChunkCount_WholeWindow(off) == Len(writeBuf)

\* c := len(p.writeBuf) - p.writeOff
ChunkCount(off) == Len(writeBuf) - off

WindowComplete_Strict(off, len) == off + len > Len(writeBuf)

\* for p.writeOff+len(data) >= len(p.writeBuf)
WindowComplete(off, len) == off + len >= Len(writeBuf)

WriteLoop(self) ==
  /\ pc[self] = "w_loop"
  /\ IF WindowComplete(writeOff, Len(data[self]))
       THEN /\ c' = [c EXCEPT ![self] = ChunkCount(writeOff)]
            /\ IF writeOff = 0
                 THEN /\ buf' = [buf EXCEPT ![self] =
                                   [kind |-> "data", bytes |-> data[self]]]
                      /\ data' = [data EXCEPT ![self] = Drop(data[self], Len(writeBuf))]
                      /\ UNCHANGED <<writeBuf, writeOff>>
                 ELSE /\ buf' = [buf EXCEPT ![self] =
                                   [kind |-> "writeBuf", bytes |-> <<>>]]
                      /\ writeBuf' = CopyInto(writeBuf, writeOff, data[self])
                      /\ data' = [data EXCEPT ![self] =
                                    Drop(data[self], Len(writeBuf) - writeOff)]
                      /\ writeOff' = 0
            /\ pc' = [pc EXCEPT ![self] = "w_recv"]
            /\ ret' = NoRet
            /\ UNCHANGED <<n>>
       ELSE /\ IF Len(data[self]) > 0
                 THEN /\ writeBuf' = CopyInto(writeBuf, writeOff, data[self])
                      /\ writeOff' = writeOff + Len(data[self])
                 ELSE UNCHANGED <<writeBuf, writeOff>>
            /\ ret' = Returns(self, n[self] + Len(data[self]), "nil")
            /\ n' = [n EXCEPT ![self] = 0]
            /\ data' = [data EXCEPT ![self] = <<>>]
            /\ pc' = [pc EXCEPT ![self] = "idle"]
            /\ UNCHANGED <<c, buf>>
  /\ UNCHANGED <<readBuf, readOff, closed, permit, chClosed, mu, engineVars,
                 callLen, inPos, dlen, delivered, closeVars>>
  /\ UNCHANGED permitVars

WriteRecv_NoToken(self) ==
  /\ pc[self] = "w_recv"
  /\ pc' = [pc EXCEPT ![self] = "w_lock"]
  /\ ret' = NoRet
  /\ UNCHANGED <<adapterVars, mu, engineVars, writerVars, dlen, delivered,
                 closeVars, permitVars>>

\* <-p.writePermit: takes a buffered token, or returns at once on a closed channel
WriteRecv(self) ==
  /\ pc[self] = "w_recv"
  /\ permit > 0 \/ chClosed
  /\ permit' = IF permit > 0 THEN permit - 1 ELSE permit
  /\ pc' = [pc EXCEPT ![self] = "w_lock"]
  /\ ret' = NoRet
  /\ UNCHANGED <<writeBuf, writeOff, readBuf, readOff, closed, chClosed, mu,
                 engineVars, writerVars, dlen, delivered, closeVars>>
  /\ consumed' = consumed + (permit - permit')
  /\ UNCHANGED issued

WriteLock_NoLock(self) ==
  /\ pc[self] = "w_lock"
  /\ pc' = [pc EXCEPT ![self] = "w_crit"]
  /\ ret' = NoRet
  /\ UNCHANGED <<adapterVars, mu, engineVars, writerVars, dlen, delivered,
                 closeVars>>
  /\ UNCHANGED permitVars

WriteLock(self) ==
  /\ pc[self] = "w_lock"
  /\ mu = NoProc
  /\ mu' = self
  /\ pc' = [pc EXCEPT ![self] = "w_crit"]
  /\ ret' = NoRet
  /\ UNCHANGED <<adapterVars, engineVars, writerVars, dlen, delivered,
                 closeVars>>
  /\ UNCHANGED permitVars

SubmittedWindow_AlwaysStaging(self) == writeBuf

\* the window paulstretch_write reads through &samples[0]
SubmittedWindow(self) ==
  IF buf[self].kind = "data" THEN Take(buf[self].bytes, Len(writeBuf)) ELSE writeBuf

WriteCrit_NoRecheck(self) ==
  /\ pc[self] = "w_crit"
  /\ mu = self
  /\ submitted' = Append(submitted, SubmittedWindow(self))
  /\ engPending' \in EngineReadyAfterWrite
  /\ \E t \in SignalTargets :
       pc' = [Signalled(pc, t) EXCEPT ![self] = "w_loop"]
  /\ n' = [n EXCEPT ![self] = @ + c[self]]
  /\ ret' = NoRet
  /\ mu' = NoProc
  /\ c' = [c EXCEPT ![self] = 0]
  /\ buf' = [buf EXCEPT ![self] = NoBuf]
  /\ UNCHANGED <<adapterVars, data, engEmitted, callLen, inPos, dlen,
                 delivered, closeVars>>
  /\ UNCHANGED permitVars

WriteCrit_AbortCountsChunk(self) ==
  /\ pc[self] = "w_crit"
  /\ mu = self
  /\ IF closed
       THEN /\ ret' = Returns(self, n[self] + c[self], "EOF")
            /\ pc' = [pc EXCEPT ![self] = "idle"]
            /\ n' = [n EXCEPT ![self] = 0]
            /\ data' = [data EXCEPT ![self] = <<>>]
            /\ UNCHANGED <<engineVars>>
       ELSE /\ submitted' = Append(submitted, SubmittedWindow(self))
            /\ engPending' \in EngineReadyAfterWrite
            /\ \E t \in SignalTargets :
                 pc' = [Signalled(pc, t) EXCEPT ![self] = "w_loop"]
            /\ n' = [n EXCEPT ![self] = @ + c[self]]
            /\ ret' = NoRet
            /\ UNCHANGED <<data, engEmitted>>
  /\ mu' = NoProc
  /\ c' = [c EXCEPT ![self] = 0]
  /\ buf' = [buf EXCEPT ![self] = NoBuf]
  /\ UNCHANGED <<adapterVars, callLen, inPos, dlen, delivered, closeVars>>
  /\ UNCHANGED permitVars

WriteCrit(self) ==
  /\ pc[self] = "w_crit"
  /\ mu = self
  /\ IF closed
       THEN /\ ret' = Returns(self, n[self], "EOF")
            /\ pc' = [pc EXCEPT ![self] = "idle"]
            /\ n' = [n EXCEPT ![self] = 0]
            /\ data' = [data EXCEPT ![self] = <<>>]
            /\ UNCHANGED <<engineVars>>
       ELSE /\ submitted' = Append(submitted, SubmittedWindow(self))
            /\ engPending' \in EngineReadyAfterWrite
            /\ \E t \in SignalTargets :
                 pc' = [Signalled(pc, t) EXCEPT ![self] = "w_loop"]
            /\ n' = [n EXCEPT ![self] = @ + c[self]]
            /\ ret' = NoRet
            /\ UNCHANGED <<data, engEmitted>>
  /\ mu' = NoProc
  /\ c' = [c EXCEPT ![self] = 0]
  /\ buf' = [buf EXCEPT ![self] = NoBuf]
  /\ UNCHANGED <<adapterVars, callLen, inPos, dlen, delivered, closeVars>>
  /\ UNCHANGED permitVars

\* ------------------------------------------------------------------- Read
ReadCall(self) ==
  /\ pc[self] = "idle"
  /\ \E len \in 0..MaxReadLen : dlen' = [dlen EXCEPT ![self] = len]
  /\ pc' = [pc EXCEPT ![self] = "r_fast"]
  /\ ret' = NoRet
  /\ UNCHANGED <<adapterVars, mu, engineVars, writerVars, delivered,
                 closeVars>>
  /\ UNCHANGED permitVars

ReadFast(self) ==
  /\ pc[self] = "r_fast"
  /\ IF readOff < Len(readBuf)
       THEN LET k == Min(dlen[self], Len(readBuf) - readOff) IN
            /\ delivered' = delivered \o SubSeq(readBuf, readOff + 1, readOff + k)
            /\ readOff' = readOff + k
            /\ ret' = Returns(self, k, "nil")
            /\ pc' = [pc EXCEPT ![self] = "idle"]
            /\ dlen' = [dlen EXCEPT ![self] = 0]
       ELSE IF dlen[self] = 0
         THEN /\ ret' = Returns(self, 0, "nil")
              /\ pc' = [pc EXCEPT ![self] = "idle"]
              /\ UNCHANGED <<delivered, readOff, dlen>>
         ELSE /\ pc' = [pc EXCEPT ![self] = "r_lock"]
              /\ ret' = NoRet
              /\ UNCHANGED <<delivered, readOff, dlen>>
  /\ UNCHANGED <<writeBuf, writeOff, readBuf, closed, permit, chClosed, mu,
                 engineVars, writerVars, closeVars>>
  /\ UNCHANGED permitVars

\* p.rwCond.L.Lock(), and the lock taken back when rwCond.Wait() returns
ReadLock(self) ==
  /\ pc[self] \in {"r_lock", "r_woken"}
  /\ mu = NoProc
  /\ mu' = self
  /\ pc' = [pc EXCEPT ![self] = "r_fetch"]
  /\ ret' = NoRet
  /\ UNCHANGED <<adapterVars, engineVars, writerVars, dlen, delivered,
                 closeVars>>
  /\ UNCHANGED permitVars

ReadFetch_ClosedFirst(self) ==
  /\ pc[self] = "r_fetch"
  /\ mu = self
  /\ IF closed
       THEN /\ ret' = Returns(self, 0, "EOF")
            /\ pc' = [pc EXCEPT ![self] = "idle"]
            /\ dlen' = [dlen EXCEPT ![self] = 0]
            /\ UNCHANGED <<engPending, engEmitted, permit, panicked>>
       ELSE IF engPending > 0
         THEN /\ engPending' = engPending - 1
              /\ engEmitted' = engEmitted + 1
              /\ pc' = [pc EXCEPT ![self] = "r_copy"]
              /\ ret' = NoRet
              /\ UNCHANGED <<permit, panicked, dlen>>
         ELSE /\ permit' = IF chClosed THEN permit ELSE PermitAfterSend(permit)
              /\ panicked' = (panicked \/ chClosed)
              /\ pc' = [pc EXCEPT ![self] = "r_wait"]
              /\ ret' = NoRet
              /\ UNCHANGED <<engPending, engEmitted, dlen>>
  /\ mu' = NoProc
  /\ UNCHANGED <<writeBuf, writeOff, readBuf, readOff, closed, chClosed,
                 submitted, writerVars, delivered, chCloseCount>>
  /\ issued' = issued + (permit' - permit)
  /\ UNCHANGED consumed

ReadFetch_NoClosedCheck(self) ==
  /\ pc[self] = "r_fetch"
  /\ mu = self
  /\ IF engPending > 0
       THEN /\ engPending' = engPending - 1
            /\ engEmitted' = engEmitted + 1
            /\ pc' = [pc EXCEPT ![self] = "r_copy"]
            /\ ret' = NoRet
            /\ UNCHANGED <<permit, panicked, dlen>>
       ELSE /\ permit' = IF chClosed THEN permit ELSE PermitAfterSend(permit)
            /\ panicked' = (panicked \/ chClosed)
            /\ pc' = [pc EXCEPT ![self] = "r_wait"]
            /\ ret' = NoRet
            /\ UNCHANGED <<engPending, engEmitted, dlen>>
  /\ mu' = NoProc
  /\ UNCHANGED <<writeBuf, writeOff, readBuf, readOff, closed, chClosed,
                 submitted, writerVars, delivered, chCloseCount>>
  /\ issued' = issued + (permit' - permit)
  /\ UNCHANGED consumed

\* available := C.paulstretch_read(p.ps, &outSamples) and the body of the loop
ReadFetch(self) ==
  /\ pc[self] = "r_fetch"
  /\ mu = self
  /\ IF engPending > 0
       THEN /\ engPending' = engPending - 1
            /\ engEmitted' = engEmitted + 1
            /\ pc' = [pc EXCEPT ![self] = "r_copy"]
            /\ ret' = NoRet
            /\ UNCHANGED <<permit, panicked, dlen>>
       ELSE IF closed
         THEN /\ ret' = Returns(self, 0, "EOF")
              /\ pc' = [pc EXCEPT ![self] = "idle"]
              /\ dlen' = [dlen EXCEPT ![self] = 0]
              /\ UNCHANGED <<engPending, engEmitted, permit, panicked>>
         ELSE /\ permit' = IF chClosed THEN permit ELSE PermitAfterSend(permit)
              /\ panicked' = (panicked \/ chClosed)
              /\ pc' = [pc EXCEPT ![self] = "r_wait"]
              /\ ret' = NoRet
              /\ UNCHANGED <<engPending, engEmitted, dlen>>
  /\ mu' = NoProc
  /\ UNCHANGED <<writeBuf, writeOff, readBuf, readOff, closed, chClosed,
                 submitted, writerVars, delivered, chCloseCount>>
  /\ issued' = issued + (permit' - permit)
  /\ UNCHANGED consumed

\* n := copy(data, out): the bytes of the window that fit the destination
CopiedCount(len) == Min(len, Len(readBuf))

StashRemainder_FromStart(rb, out, k) == CopyInto(rb, k, out)

\* copy(p.readBuf[n:], out[n:])
StashRemainder(rb, out, k) == CopyInto(rb, k, Drop(out, k))

\* the copy out of the engine's output buffer, after the lock is released
ReadCopy(self) ==
  /\ pc[self] = "r_copy"
  /\ LET out == EmittedWindow(engEmitted)
         k == CopiedCount(dlen[self]) IN
       /\ delivered' = delivered \o Take(out, k)
       /\ IF k < Len(readBuf)
            THEN /\ readBuf' = StashRemainder(readBuf, out, k)
                 /\ readOff' = k
            ELSE UNCHANGED <<readBuf, readOff>>
       /\ ret' = Returns(self, k, "nil")
  /\ pc' = [pc EXCEPT ![self] = "idle"]
  /\ dlen' = [dlen EXCEPT ![self] = 0]
  /\ UNCHANGED <<writeBuf, writeOff, closed, permit, chClosed, mu, engineVars,
                 writerVars, closeVars>>
  /\ UNCHANGED permitVars

\* ------------------------------------------------------------------- Next
Next ==
  \/ \E w \in Writers : WriteCall(w)
  \/ \E w \in Writers : WriteChk(w)
  \/ \E w \in Writers : WriteLoop(w)
  \/ \E w \in Writers : WriteRecv(w)
  \/ \E w \in Writers : WriteLock(w)
  \/ \E w \in Writers : WriteCrit(w)
  \/ \E r \in Readers : ReadCall(r)
  \/ \E r \in Readers : ReadFast(r)
  \/ \E r \in Readers : ReadLock(r)
  \/ \E r \in Readers : ReadFetch(r)
  \/ \E r \in Readers : ReadCopy(r)
  \/ \E k \in Closers : CloseCall(k)
  \/ \E k \in Closers : CloseLock(k)
  \/ \E k \in Closers : CloseCrit(k)

Spec == Init /\ [][Next]_vars

\* the steps inside a call, which the scheduler runs fairly; calls themselves
\* are up to the callers
WriterStep(w) ==
  WriteChk(w) \/ WriteLoop(w) \/ WriteRecv(w) \/ WriteLock(w) \/ WriteCrit(w)

ReaderStep(r) == ReadFast(r) \/ ReadLock(r) \/ ReadFetch(r) \/ ReadCopy(r)

CloserStep(k) == CloseLock(k) \/ CloseCrit(k)

\* one writer, one reader and one goroutine that closes
LiveClosers == {"c1"}

LiveNext ==
  \/ \E w \in Writers : WriteCall(w)
  \/ \E w \in Writers : WriteChk(w)
  \/ \E w \in Writers : WriteLoop(w)
  \/ \E w \in Writers : WriteRecv(w)
  \/ \E w \in Writers : WriteLock(w)
  \/ \E w \in Writers : WriteCrit(w)
  \/ \E r \in Readers : ReadCall(r)
  \/ \E r \in Readers : ReadFast(r)
  \/ \E r \in Readers : ReadLock(r)
  \/ \E r \in Readers : ReadFetch(r)
  \/ \E r \in Readers : ReadCopy(r)
  \/ \E k \in LiveClosers : CloseCall(k)
  \/ \E k \in LiveClosers : CloseLock(k)
  \/ \E k \in LiveClosers : CloseCrit(k)

Fairness ==
  /\ \A w \in Writers : WF_vars(WriterStep(w))
  /\ \A r \in Readers : WF_vars(ReaderStep(r))
  /\ \A k \in LiveClosers : WF_vars(CloserStep(k))
  \* sync.Mutex hands the lock to a goroutine that has waited long enough
  \* (starvation mode), so a goroutine in Lock is not overtaken for ever
  /\ \A w \in Writers : SF_vars(WriteLock(w))
  /\ \A r \in Readers : SF_vars(ReadLock(r))
  /\ \A k \in LiveClosers : SF_vars(CloseLock(k))

LiveSpec == Init /\ [][LiveNext]_vars /\ Fairness

\* ------------------------------------------------------------- properties
ReadReturned == ret'.who \in Readers

WriteReturned == ret'.who \in Writers

InRead(r) == pc[r] \in {"r_fast", "r_lock", "r_fetch", "r_wait", "r_woken", "r_copy"}

\* C1: one writer and one reader never deadlock. The writer waiting for the
\* permit and the reader waiting on the condition variable are never both
\* stuck (no token, channel open, no wake-up pending); while the reader is
\* blocked, a writer that has a full window to submit gets past the permit
\* (the window is submitted, or Close aborts the Write); the reader that was
\* woken takes the lock again and fetches; and a fetch that finds output
\* ready returns data to the caller.
C1_NoDeadlock ==
  /\ [](\A w \in Writers, r \in Readers :
          ~(pc[w] = "w_recv" /\ pc[r] = "r_wait" /\ permit = 0 /\ ~chClosed))
  /\ \A w \in Writers, r \in Readers :
       (pc[r] = "r_wait" /\ pc[w] = "w_recv") ~> (pc[w] # "w_recv")
  /\ \A r \in Readers : (pc[r] = "r_woken") ~> (pc[r] = "r_fetch")
  /\ \A r \in Readers :
       (pc[r] = "r_fetch" /\ engPending > 0)
         ~> (ret.who = r /\ ret.n > 0 /\ ret.err = "nil")

\* the blocked Read was woken by the submission of a window that a second
\* Write completed, and returned data
C1_Witness ==
  /\ ret.who \in Readers /\ ret.n > 0
  /\ Len(submitted) = 1
  /\ \E w \in Writers : pc[w] = "idle" /\ inPos = Cap /\ writeOff = 0
  /\ writeBuf # ZeroBuf(Cap)

\* C2: a window is submitted to the engine only when the engine has no output
\* left that the reader has not fetched.
C2_SubmitOnlyWhenReady == [][submitted' # submitted => engPending = 0]_vars

\* C3: once closed is true no window is submitted to the engine any more.
C3_NoSubmitAfterClose == [][closed => submitted' = submitted]_vars

\* a Write that had windows accepted was stopped by the re-check of closed
C3_Witness ==
  /\ closed
  /\ ret.who \in Writers /\ ret.err = "EOF" /\ ret.n > 0

\* C4: a Read returns io.EOF only with 0 bytes, on a closed stream whose
\* staging buffer is drained and whose engine has no output left; every other
\* Read returns a nil error, and bytes whenever its destination is not empty,
\* also after Close.
C4_ReadAfterClose ==
  [][ReadReturned =>
       /\ ret'.err \in {"nil", "EOF"}
       /\ ret'.err = "EOF" =>
            /\ ret'.n = 0
            /\ closed /\ readOff = Cap /\ engPending = 0
            /\ readOff' = Cap /\ engPending' = 0 /\ delivered' = delivered
       /\ ret'.err = "nil" =>
            /\ dlen[ret'.who] > 0 => ret'.n > 0
            /\ Len(delivered') = Len(delivered) + ret'.n]_vars

\* a Read on the closed stream returned output that was still available
C4_Witness ==
  /\ closed
  /\ ret.who \in Readers /\ ret.err = "nil" /\ ret.n > 0

\* C5: on a closed stream a Read that is in progress, blocked or not,
\* eventually returns.
C5_ReadReturnsAfterClose ==
  \A r \in Readers : (closed /\ InRead(r)) ~> (pc[r] = "idle")

\* Close found the Read blocked in Wait and woke it
C5_Witness ==
  /\ closed
  /\ ret.who \in Closers
  /\ \E r \in Readers : pc[r] = "r_woken"

\* C6: a Write that starts on the closed stream returns 0 and io.EOF in its
\* first step, without touching the staging buffer, the fill offset or the
\* engine.
C6_WriteAfterClose ==
  [][\A w \in Writers :
       (pc[w] = "w_chk" /\ closed) =>
         /\ writeBuf' = writeBuf /\ writeOff' = writeOff
         /\ submitted' = submitted
         /\ \/ pc'[w] = "w_chk"
            \/ pc'[w] = "idle" /\ ret' = Returns(w, 0, "EOF")]_vars

\* a Write of at least one window was refused on the closed stream
C6_Witness ==
  /\ closed
  /\ \E w \in Writers :
       ret = Returns(w, 0, "EOF") /\ callLen[w] >= Cap /\ pc[w] = "idle"
  /\ submitted = <<>>

\* C7: Close is idempotent. The channel is closed at most once, exactly when
\* closed is true, nothing panics, closed never goes back to false, and a
\* Close that finds closed set changes nothing of the adapter, the engine or
\* the other goroutines.
C7_CloseIdempotent ==
  /\ [](chCloseCount <= 1 /\ ~panicked /\ (closed <=> chCloseCount = 1)
        /\ (closed <=> chClosed))
  /\ [][closed =>
          /\ closed'
          /\ \A k \in Closers :
               (pc[k] = "c_crit" /\ pc'[k] = "done") =>
                 /\ UNCHANGED <<adapterVars, engineVars, chCloseCount>>
                 /\ \A p \in Procs \ {k} : pc'[p] = pc[p]
                 /\ ret' = Returns(k, 0, "nil")]_vars

\* two Close calls have returned
C7_Witness ==
  /\ closed
  /\ \A k \in Closers : pc[k] = "done"

\* C8: the windows submitted are the consecutive window-size blocks of the
\* input stream, in order; when no Write is in progress on the open stream,
\* every complete block of the input written so far has been submitted once
\* and the bytes after the last block are in the staging buffer.
C8_WindowsAreInputBlocks ==
  /\ \A i \in 1..Len(submitted) :
       submitted[i] = InputBytes((i - 1) * Cap + 1, Cap)
  /\ (~closed /\ \A w \in Writers : pc[w] = "idle") =>
       /\ Len(submitted) = inPos \div Cap
       /\ writeOff = inPos % Cap
       /\ SubSeq(writeBuf, 1, writeOff) =
            InputBytes(inPos - writeOff + 1, writeOff)

\* two windows' worth of bytes were written, the first window through the
\* staging buffer
C8_Witness ==
  /\ ~closed
  /\ \A w \in Writers : pc[w] = "idle"
  /\ inPos = 2 * Cap /\ Len(submitted) = 2
  /\ writeBuf = submitted[1]

\* C9: the bytes returned by Read are the bytes of the windows the engine
\* emitted, in emission order, none twice and none skipped: everything but
\* the undelivered rest of the last window has been delivered.
C9_ReadsAreEmittedBytes ==
  /\ delivered = [i \in 1..Len(delivered) |-> i]
  /\ \A r \in Readers :
       Len(delivered) = IF pc[r] = "r_copy"
                          THEN (engEmitted - 1) * Cap
                          ELSE engEmitted * Cap - (Cap - readOff)

\* a Read took the head of the second window, the rest is in the staging buffer
C9_Witness ==
  /\ ret.who \in Readers /\ ret.n > 0
  /\ engEmitted = 2
  /\ readOff \in 1..(Cap - 1)
  /\ Len(delivered) = Cap + readOff

\* C10: a Write that returns while the stream is not closed returns
\* n = len(data) and a nil error.
C10_WriteAcceptsAll ==
  [][(WriteReturned /\ ~closed') =>
       (ret'.n = callLen[ret'.who] /\ ret'.err = "nil")]_vars

\* a Write that found bytes in the staging buffer completed a window and
\* left bytes behind
C10_Witness ==
  /\ ~closed
  /\ ret.who \in Writers /\ ret.err = "nil" /\ ret.n >= Cap
  /\ ret.n < inPos
  /\ writeOff > 0 /\ Len(submitted) >= 1

Max(a, b) == IF a > b THEN a ELSE b

\* C11: a Write that the re-check of closed stops returns io.EOF and the
\* number of bytes of its own data that the windows submitted so far hold:
\* the input up to the last submitted window less the input of earlier calls.
C11_AbortReportsAccepted ==
  [][\A w \in Writers :
       (pc[w] = "w_crit" /\ pc'[w] = "idle") =>
         /\ ret'.who = w /\ ret'.err = "EOF"
         /\ ret'.n = Max(0, Len(submitted) * Cap - (inPos - callLen[w]))
         /\ ret'.n >= 0 /\ ret'.n <= callLen[w]
         /\ submitted' = submitted]_vars

\* Close stopped a Write after one of its windows was submitted and before
\* the rest of its data was
C11_Witness ==
  /\ closed
  /\ \E w \in Writers :
       /\ ret.who = w /\ ret.err = "EOF"
       /\ ret.n > 0 /\ ret.n < callLen[w]
       /\ Len(submitted) * Cap < inPos

\* C13: paulstretch_write and paulstretch_read are called with the mutex
\* held, so at most one engine call is in progress.
InEngineCall(p) == pc[p] \in {"w_crit", "r_fetch"}

C13_EngineCallsLocked ==
  /\ \A p \in Procs : InEngineCall(p) => mu = p
  /\ Cardinality({p \in Procs : InEngineCall(p)}) <= 1

\* the writer is in its engine call while the reader and a Close wait for the lock
C13_Witness ==
  /\ \E w \in Writers : pc[w] = "w_crit" /\ mu = w
  /\ \E r \in Readers : pc[r] \in {"r_lock", "r_woken"}
  /\ \E k \in Closers : pc[k] = "c_lock"

\* C16: the fill offset and the drain offset stay within the window; the
\* drain offset is the window size exactly when every byte fetched from the
\* engine has been delivered; and between Write calls the fill offset is
\* below the window size.
C16_OffsetsInWindow ==
  /\ writeOff \in 0..Cap
  /\ readOff \in 0..Cap
  /\ Len(writeBuf) = Cap /\ Len(readBuf) = Cap
  /\ \A r \in Readers :
       pc[r] # "r_copy" => (readOff = Cap <=> Len(delivered) = engEmitted * Cap)
  /\ \A w \in Writers : pc[w] = "idle" => writeOff < Cap

\* a Write returned leaving the staging buffer one byte short of a window,
\* while part of an output window is buffered
C16_Witness ==
  /\ ret.who \in Writers /\ ret.err = "nil"
  /\ writeOff = Cap - 1
  /\ readOff < Cap

StagedBytes == {writeBuf[i] : i \in 1..writeOff}

SubmittedBytes == UNION {{submitted[j][i] : i \in 1..Len(submitted[j])} :
                           j \in 1..Len(submitted)}

\* C18: between Write calls the bytes in the staging buffer are in no
\* submitted window, and Close submits nothing and leaves the staging buffer
\* and the fill offset as they are.
C18_PartialWindowNotFlushed ==
  /\ []((\A w \in Writers : pc[w] = "idle") =>
          StagedBytes \cap SubmittedBytes = {})
  /\ [][\A k \in Closers :
          pc'[k] # pc[k] =>
            UNCHANGED <<submitted, writeBuf, writeOff>>]_vars

\* the stream was closed with a partial window staged after a window was submitted
C18_Witness ==
  /\ closed /\ writeOff > 0
  /\ \A w \in Writers : pc[w] = "idle"
  /\ Len(submitted) >= 1
  /\ \E k \in Closers : ret.who = k

\* C19: the reader's send of a permit happens with the lock held, on the
\* open stream and the open channel; the channel is closed with the lock
\* held; no send or close panics.
C19_NoSendOnClosedChannel ==
  /\ [](~panicked)
  /\ [][/\ permit' > permit =>
             (mu \in Readers /\ ~closed /\ ~chClosed /\ pc[mu] = "r_fetch")
        /\ chClosed' # chClosed => (mu \in Closers /\ pc[mu] = "c_crit")]_vars

\* the reader sent a permit and waits, and a Close that waited for the lock holds it now
C19_Witness ==
  /\ ~closed /\ permit = 1 /\ Len(submitted) >= 1
  /\ \E r \in Readers : pc[r] = "r_wait"
  /\ \E k \in Closers : pc[k] = "c_crit" /\ mu = k

\* C20: no window is submitted to the engine while a Read copies a window out
\* of the engine's output buffer.
C20_NoSubmitDuringCopy ==
  [][submitted' # submitted => \A r \in Readers : pc[r] # "r_copy"]_vars

\* the fields of Paulstretch the next step of goroutine p reads
FieldsRead(p) ==
  CASE pc[p] = "w_chk" -> {"closed"}
    [] pc[p] = "w_loop" -> {"writeOff", "writeBuf"}
    [] pc[p] = "w_crit" ->
         {"closed"} \cup (IF buf[p].kind = "writeBuf" THEN {"writeBuf"} ELSE {})
    [] pc[p] = "r_fast" -> {"readOff", "readBuf"}
    [] pc[p] = "r_fetch" -> {"closed"}
    [] pc[p] = "r_copy" -> {"readBuf"}
    [] pc[p] = "c_crit" -> {"closed"}
    [] OTHER -> {}

\* the fields of Paulstretch the next step of goroutine p writes
FieldsWritten(p) ==
  CASE pc[p] = "w_loop" ->
         IF WindowComplete(writeOff, Len(data[p]))
           THEN (IF writeOff = 0 THEN {} ELSE {"writeBuf", "writeOff"})
           ELSE (IF Len(data[p]) > 0 THEN {"writeBuf", "writeOff"} ELSE {})
    [] pc[p] = "r_fast" ->
         IF readOff < Len(readBuf) /\ dlen[p] > 0 THEN {"readOff"} ELSE {}
    [] pc[p] = "r_copy" ->
         IF dlen[p] < Len(readBuf) THEN {"readBuf", "readOff"} ELSE {}
    [] pc[p] = "c_crit" -> IF closed THEN {} ELSE {"closed"}
    [] OTHER -> {}

\* two goroutines are about to access one field, one of them writing it, and
\* they do not both hold the lock
DataRace(p, q) ==
  /\ p # q
  /\ FieldsWritten(p) \cap (FieldsRead(q) \cup FieldsWritten(q)) # {}
  /\ ~(mu = p /\ mu = q)

\* C15: no two calls access the same field of the adapter at the same time
\* without the lock.
C15_NoDataRace == \A p, q \in Procs : ~DataRace(p, q)

\* C12: a Write waiting for the permit gets past the receive once the reader,
\* with the staging buffer drained, is in a Read that finds the engine without
\* output; and on the closed stream it returns io.EOF.
C12_BlockedWriteProceeds ==
  /\ \A w \in Writers, r \in Readers :
       (pc[w] = "w_recv" /\ pc[r] \in {"r_lock", "r_fetch"} /\ engPending = 0)
         ~> (pc[w] # "w_recv")
  /\ \A w \in Writers :
       (pc[w] = "w_recv" /\ closed) ~> (ret.who = w /\ ret.err = "EOF")

\* the Write of a second window finds the channel empty while the reader,
\* holding the lock, is about to find the engine without output
C12_Witness ==
  /\ ~closed /\ permit = 0 /\ engPending = 0
  /\ Len(submitted) >= 1
  /\ \E w \in Writers : pc[w] = "w_recv"
  /\ \E r \in Readers : pc[r] = "r_fetch" /\ mu = r

\* C14: the channel holds at most one permit; permits come from the
\* constructor (one) and from a Read that finds no output on the open stream,
\* and leave only through the receive in Write; every submission has its own
\* received permit, so there are at most 1 + issued submissions.
C14_PermitDiscipline ==
  /\ [](/\ permit \in 0..1
        /\ consumed + permit = 1 + issued
        /\ Len(submitted) <= consumed
        /\ Len(submitted) <= 1 + issued)
  /\ [][issued' # issued =>
          (issued' = issued + 1 /\ engPending = 0 /\ ~closed
           /\ mu \in Readers /\ readOff = Cap)]_vars

\* every permit there ever was has been used for a submission, one of them
\* sent by a stalled Read
C14_Witness ==
  /\ issued >= 1
  /\ Len(submitted) = 1 + issued
  /\ permit = 0

\* ------------------------------------------------ calls made in samples
\* WriteSamples(samples): Write of the len(samples)*4 bytes of the slice
WriteSamplesCall(self) ==
  /\ pc[self] = "idle"
  /\ \E k \in 1..MaxSamples :
       /\ inPos + k * SampleSize <= MaxInput + MaxSamples * SampleSize
       /\ data' = [data EXCEPT ![self] = InputBytes(inPos + 1, k * SampleSize)]
       /\ callLen' = [callLen EXCEPT ![self] = k * SampleSize]
       /\ inPos' = inPos + k * SampleSize
  /\ pc' = [pc EXCEPT ![self] = "w_chk"]
  /\ ret' = NoRet
  /\ UNCHANGED <<adapterVars, mu, engineVars, n, c, buf, dlen,
                 delivered, closeVars, permitVars>>

\* ReadSamples(samples): Read into the len(samples)*4 bytes of the slice
ReadSamplesCall(self) ==
  /\ pc[self] = "idle"
  /\ \E k \in 1..MaxSamples : dlen' = [dlen EXCEPT ![self] = k * SampleSize]
  /\ pc' = [pc EXCEPT ![self] = "r_fast"]
  /\ ret' = NoRet
  /\ UNCHANGED <<adapterVars, mu, engineVars, writerVars, delivered,
                 closeVars, permitVars>>

\* return n / 4, err
SamplesReturned(nbytes) == nbytes \div SampleSize

\* the adapter made with windowSize = SampleWindow, used with byte slices and
\* with sample slices
SampleInit == InitWith(SampleWindow * SampleSize)

SampleNext ==
  \/ \E w \in Writers : WriteCall(w)
  \/ \E w \in Writers : WriteSamplesCall(w)
  \/ \E w \in Writers : WriteChk(w)
  \/ \E w \in Writers : WriteLoop(w)
  \/ \E w \in Writers : WriteRecv(w)
  \/ \E w \in Writers : WriteLock(w)
  \/ \E w \in Writers : WriteCrit(w)
  \/ \E r \in Readers : ReadCall(r)
  \/ \E r \in Readers : ReadSamplesCall(r)
  \/ \E r \in Readers : ReadFast(r)
  \/ \E r \in Readers : ReadLock(r)
  \/ \E r \in Readers : ReadFetch(r)
  \/ \E r \in Readers : ReadCopy(r)
  \/ \E k \in LiveClosers : CloseCall(k)
  \/ \E k \in LiveClosers : CloseLock(k)
  \/ \E k \in LiveClosers : CloseCrit(k)

SampleSpec == SampleInit /\ [][SampleNext]_vars

\* a slice of whole samples, seen as bytes
IsSampleLen(len) == len > 0 /\ len % SampleSize = 0

WholeSamples(nbytes) == SamplesReturned(nbytes) * SampleSize = nbytes

\* C17: every Write and Read made for a slice of whole samples returns a byte
\* count that is a multiple of 4, so that n / 4 drops no part of a sample.
C17_AlwaysWholeSamples ==
  [][/\ (WriteReturned /\ IsSampleLen(callLen[ret'.who])) => WholeSamples(ret'.n)
     /\ (ReadReturned /\ IsSampleLen(dlen[ret'.who])) => WholeSamples(ret'.n)]_vars

TypeOK ==
  /\ writeOff \in 0..Cap
  /\ readOff \in 0..Cap
  /\ permit \in 0..1
  /\ mu \in Procs \cup {NoProc}
  /\ engPending \in 0..MaxEmit
====
